---- MODULE Spec2Model ----
(***************************************************************************)
(* Model of the ouroboros pairs-trading bot: the position state machine    *)
(* (_process_signal in main.py), the order/balance helpers it calls and    *)
(* the orchestration loop of main().                                       *)
(*                                                                         *)
(* Two specifications share the state machine's steps:                     *)
(*   SpecPS  calls _process_signal with every (state, signal) pair, the    *)
(*           way a unit test with a mock exchange does;                    *)
(*   Spec    runs the loop of main() from a process start.                 *)
(* A third one, SpecSig, runs the signal engine of strategy.py             *)
(* (get_signal and the computations it calls) on every candle window of    *)
(* the bounded market.  SpecNotify runs send_telegram_message of           *)
(* notifier.py.  SpecLive and SpecFair are the loop of Spec going on       *)
(* without end under fairness conditions, for the progress properties.     *)
(***************************************************************************)
EXTENDS Integers, Sequences, FiniteSets, TLC

VARIABLES
    environ,         \* the DRY_RUN entry of the process environment
    dry_run,         \* config.DRY_RUN
    acct,            \* exchange account: free balance of each coin
    open,            \* history: coins bought by a successful buy, not sold since
    filled,          \* history: the most recent order that succeeded, and
                     \* whether a sell guard has fired since
    position_state,  \* main(): position_state
    cycle,           \* main(): cycle
    pc,              \* main(): position of the control thread
    result,          \* main(): the StrategyResult of the current cycle
    engine_signal,   \* history: the signal get_signal() returned this cycle
    ps_pc,           \* _process_signal: position inside the call
    ps_state,        \* _process_signal: argument state
    ps_signal,       \* _process_signal: argument signal
    balance,         \* _process_signal: btc_balance / eth_balance
    ps_ret,          \* _process_signal: the value being returned
    calls,           \* history: helper calls made by the current call
    owed,            \* history: the (state, signal) of a successful order whose
                     \* returned state the loop has not assigned yet
    final_state,     \* the state logged and notified at shutdown
    market,          \* exchange: what fetch_ohlcv answers for each symbol
    sg_pc,           \* the signal engine: position of its caller
    df_base,         \* get_signal: df_base["close"], or None
    df_quote,        \* get_signal: df_quote["close"], or None
    spread_series,   \* get_signal: spread_series, or None
    z_score_series,  \* get_signal: z_score_series, or None
    sg_result,       \* get_signal: the StrategyResult it returned
    ds_called,       \* history: get_signal reached _determine_signal
    spread_out,      \* the value a direct call of _calculate_spread returned
    ds_history,      \* the z-score series of a direct call of _determine_signal
    ds_out,          \* the signal that direct call returned
    z_out,           \* the value a direct call of _calculate_z_score returned
    tg_call,         \* the credentials and the text of a send_telegram_message call
    tg_pc,           \* where that call is
    tg_posts         \* the requests.post calls it made

vars == <<environ, dry_run, acct, open, filled, position_state, cycle, pc, result,
          engine_signal, ps_pc, ps_state, ps_signal, balance, ps_ret,
          calls, owed, final_state, market, sg_pc, df_base, df_quote,
          spread_series, z_score_series, sg_result, ds_called, spread_out,
          ds_history, ds_out, z_out, tg_call, tg_pc, tg_posts>>

notifier_vars == <<tg_call, tg_pc, tg_posts>>

strat_vars == <<market, sg_pc, df_base, df_quote, spread_series,
                z_score_series, sg_result, ds_called, spread_out,
                ds_history, ds_out, z_out>>

loop_vars == <<position_state, cycle, pc, result, engine_signal, final_state>>

----------------------------------------------------------------------------
(* Bounds *)

MaxCycles == 4
MaxBal == 2

----------------------------------------------------------------------------
(* Enumerations and configuration *)

PositionState == {"NONE", "HOLDING_BTC", "HOLDING_ETH"}

Signal == {"LONG_BTC_SHORT_ETH", "SHORT_BTC_LONG_ETH", "CLOSE_POSITIONS", "HOLD"}

SYMBOL_BASE == "BTC/USDT"

SYMBOL_QUOTE == "ETH/USDT"

TRADE_AMOUNT_USDT == 150

DRY_RUN_FAKE_BALANCE == 99

\* a str as the sequence of its characters
Str(chars) == chars

\* the DRY_RUN entry of os.environ: absent, or a str
Unset == [set |-> FALSE, value |-> Str(<<>>)]

Setting(value) == [set |-> TRUE, value |-> value]

\* the settings of DRY_RUN a .env file is given: none, the three spellings of
\* each value, two mistyped ones, another word for yes and the empty string
Environs ==
    {Unset} \cup
    {Setting(v) : v \in {Str(<<"T", "r", "u", "e">>),
                         Str(<<"t", "r", "u", "e">>),
                         Str(<<"T", "R", "U", "E">>),
                         Str(<<"F", "a", "l", "s", "e">>),
                         Str(<<"f", "a", "l", "s", "e">>),
                         Str(<<"F", "A", "L", "S", "E">>),
                         Str(<<"F", "l", "a", "s", "e">>),
                         Str(<<"t", "u", "r", "e">>),
                         Str(<<"y", "e", "s">>),
                         Str(<<>>)}}

\* os.getenv(name, default)
getenv(env, default) == IF env.set THEN env.value ELSE default

UpperCase == <<"A", "E", "F", "L", "R", "S", "T", "U", "Y">>

LowerCase == <<"a", "e", "f", "l", "r", "s", "t", "u", "y">>

\* str.lower()
lower(str) ==
    [i \in DOMAIN str |->
       IF \E k \in DOMAIN UpperCase : UpperCase[k] = str[i]
       THEN LowerCase[CHOOSE k \in DOMAIN UpperCase : UpperCase[k] = str[i]]
       ELSE str[i]]

\* config.DRY_RUN as config.py computes it when it is imported
DRY_RUN(env) ==
    lower(getenv(env, Str(<<"T", "r", "u", "e">>)))
        = Str(<<"t", "r", "u", "e">>)

Coins == {"BTC", "ETH"}

\* the coin a market symbol trades
CoinOf(symbol) == IF symbol = SYMBOL_BASE THEN "BTC" ELSE "ETH"

NoState == "none"

NoOrder == [state |-> NoState, signal |-> NoState]

\* an order that succeeded, no sell guard having fired since
Fill(op, symbol) == [op |-> op, symbol |-> symbol, reset |-> FALSE]

NoFill == Fill(NoState, NoState)

\* whether a helper of main.py reaches its exchange call: the three helpers
\* that take the exchange return before it when config.DRY_RUN is set
exchange_called(op) == op \in {"buy", "sell", "balance"} /\ ~dry_run

Event(op, arg, amount, ok) ==
    [op |-> op, arg |-> arg, amount |-> amount, ok |-> ok,
     api |-> exchange_called(op)]

----------------------------------------------------------------------------
(* Decisions of _process_signal *)

\* variant: every signal but HOLD is taken for an entry
is_entry_any(signal) == signal # "HOLD"

\* the entry signals acted on when state is NONE
is_entry(signal) == signal \in {"LONG_BTC_SHORT_ETH", "SHORT_BTC_LONG_ETH"}

\* variant: both entries buy the base symbol
entry_symbol_base(signal) == SYMBOL_BASE

\* the symbol an entry signal buys
entry_symbol(signal) ==
    IF signal = "LONG_BTC_SHORT_ETH" THEN SYMBOL_BASE ELSE SYMBOL_QUOTE

\* variant: the success branch returns NONE as the failure branch does
after_buy_stays(signal, success) == "NONE"

\* the state an entry reaches when its buy returns success
after_buy(signal, success) ==
    IF success
    THEN (IF signal = "LONG_BTC_SHORT_ETH" THEN "HOLDING_BTC" ELSE "HOLDING_ETH")
    ELSE "NONE"

\* should_exit of the two holding branches
should_exit(state, signal) ==
    IF state = "HOLDING_BTC"
    THEN signal \in {"CLOSE_POSITIONS", "SHORT_BTC_LONG_ETH"}
    ELSE signal \in {"CLOSE_POSITIONS", "LONG_BTC_SHORT_ETH"}

\* the currency whose balance a holding branch queries
held_currency(state) == IF state = "HOLDING_BTC" THEN "BTC" ELSE "ETH"

\* variant: the two holding branches sell each other's symbol
held_symbol_swapped(state) ==
    IF state = "HOLDING_BTC" THEN SYMBOL_QUOTE ELSE SYMBOL_BASE

\* variant: the HOLDING_ETH branch sells the base symbol as well
held_symbol_base(state) == SYMBOL_BASE

\* the symbol a holding branch sells
held_symbol(state) == IF state = "HOLDING_BTC" THEN SYMBOL_BASE ELSE SYMBOL_QUOTE

\* variant: the guard tests balance < 0
guard_fires_negative(b) == b < 0

\* the sell guard: balance <= 0
guard_fires(b) == b <= 0

\* variant: the failure branch returns NONE as the success branch does
after_sell_resets(state, success) == "NONE"

\* variant: a successful exit enters the opposite position at once
after_sell_reenters(state, success) ==
    IF success
    THEN (IF state = "HOLDING_BTC" THEN "HOLDING_ETH" ELSE "HOLDING_BTC")
    ELSE state

\* variant: the state is kept whatever the sell returned
after_sell_stays(state, success) == state

\* the state an exit reaches once its sell returned
after_sell(state, success) == IF success THEN "NONE" ELSE state

\* variant: the failure branches send a notification too
notifies_always(success) == TRUE

\* a notification is sent exactly in the success branches
notifies(success) == success

----------------------------------------------------------------------------
(* Helpers of main.py *)

\* variant: the live path reads the BTC entry whatever the currency asked for
get_coin_balance_btc(currency, fetched) ==
    IF dry_run THEN DRY_RUN_FAKE_BALANCE
    ELSE IF fetched THEN acct["BTC"] ELSE 0

\* variant: _get_coin_balance without its dry-run return
get_coin_balance_no_dry_run(currency, fetched) ==
    IF fetched THEN acct[currency] ELSE 0

\* variant: a failed exchange call answers the free balance all the same
get_coin_balance_ignores_failure(currency, fetched) ==
    IF dry_run THEN DRY_RUN_FAKE_BALANCE ELSE acct[currency]

\* _get_coin_balance: the fake balance in dry run, the free balance in live
\* mode, 0.0 when the exchange call raises
get_coin_balance(currency, fetched) ==
    IF dry_run THEN DRY_RUN_FAKE_BALANCE
    ELSE IF fetched THEN acct[currency] ELSE 0

\* the results _execute_buy can return
buy_results(symbol) ==
    IF dry_run THEN {TRUE}
    ELSE IF acct[CoinOf(symbol)] < MaxBal THEN BOOLEAN ELSE {FALSE}

\* variant: _execute_sell without its dry-run return
sell_results_live(symbol, amount) == BOOLEAN

\* the results _execute_sell can return
sell_results(symbol, amount) ==
    IF dry_run THEN {TRUE}
    ELSE BOOLEAN

----------------------------------------------------------------------------
(* notifier.py *)

\* "text[:4096]"
TelegramLimit == 4096

\* config.TELEGRAM_BOT_TOKEN and config.TELEGRAM_CHAT_ID: None when the
\* variable is absent, else its value, which may be empty
Credentials == {"<None>", "", "configured"}

\* variant: the guard tests the token only
not_configured_token_only(token, chat_id) == token \in {"<None>", ""}

\* "not config.TELEGRAM_BOT_TOKEN or not config.TELEGRAM_CHAT_ID"
not_configured(token, chat_id) ==
    token \in {"<None>", ""} \/ chat_id \in {"<None>", ""}

\* text[:4096]
truncated_text(text) ==
    IF Len(text) <= TelegramLimit THEN text ELSE SubSeq(text, 1, TelegramLimit)

\* how requests.post and raise_for_status end: without an exception, or with
\* one of the exceptions of requests.exceptions
PostOutcomes ==
    {"ok", "HTTPError", "ConnectionError", "Timeout", "RequestException"}

\* variant: only the HTTP error has an except clause
caught_http_only(outcome) == outcome = "HTTPError"

\* the except clauses of send_telegram_message
caught(outcome) ==
    outcome \in {"HTTPError", "ConnectionError", "Timeout", "RequestException"}

\* send_telegram_message returns to its caller
send_returns(outcome) == outcome = "ok" \/ caught(outcome)

\* no call of send_telegram_message is under way
NoCall == [token |-> "<None>", chat_id |-> "<None>", text |-> <<>>]

NotifierIdle ==
    /\ tg_call = NoCall
    /\ tg_pc = "off"
    /\ tg_posts = <<>>

----------------------------------------------------------------------------
(* _process_signal, one step per call it makes *)

\* entry of the call: the argument frame
Enter(state, signal) ==
    /\ ps_pc = "idle"
    /\ ps_state' = state
    /\ ps_signal' = signal
    /\ ps_ret' = NoState
    /\ balance' = 0
    /\ calls' = <<>>
    /\ ps_pc' = "dispatch"

\* the three branches on state and the signal tests inside them
Dispatch ==
    /\ ps_pc = "dispatch"
    /\ IF ps_state = "NONE"
       THEN IF is_entry(ps_signal)
            THEN ps_pc' = "buy" /\ UNCHANGED ps_ret
            ELSE ps_pc' = "ret" /\ ps_ret' = "NONE"
       ELSE IF should_exit(ps_state, ps_signal)
            THEN ps_pc' = "balance" /\ UNCHANGED ps_ret
            ELSE ps_pc' = "ret" /\ ps_ret' = ps_state
    /\ UNCHANGED <<environ, dry_run, filled,
                   acct, open, ps_state, ps_signal, balance, calls,
                   owed>>
    /\ UNCHANGED loop_vars
    /\ UNCHANGED strat_vars
    /\ UNCHANGED notifier_vars

\* _execute_buy and the branch on its result
ExecuteBuy ==
    /\ ps_pc = "buy"
    /\ LET symbol == entry_symbol(ps_signal)
           coin == CoinOf(symbol)
       IN \E success \in buy_results(symbol) :
            /\ calls' = Append(calls,
                               Event("buy", symbol, TRADE_AMOUNT_USDT, success))
            /\ ps_ret' = after_buy(ps_signal, success)
            /\ ps_pc' = IF notifies(success) THEN "notify" ELSE "ret"
            /\ IF success
               THEN /\ open' = open \cup {coin}
                    /\ filled' = Fill("buy", symbol)
                    /\ owed' = [state |-> ps_state, signal |-> ps_signal]
                    /\ IF dry_run
                       THEN UNCHANGED acct
                       ELSE \E q \in 1..(MaxBal - acct[coin]) :
                              acct' = [acct EXCEPT ![coin] = acct[coin] + q]
               ELSE UNCHANGED <<open, owed, acct, filled>>
    /\ UNCHANGED <<environ, dry_run, ps_state, ps_signal, balance>>
    /\ UNCHANGED loop_vars
    /\ UNCHANGED strat_vars
    /\ UNCHANGED notifier_vars

\* _get_coin_balance in a holding branch
GetCoinBalance ==
    /\ ps_pc = "balance"
    /\ LET currency == held_currency(ps_state)
       IN \E fetched \in (IF dry_run THEN {TRUE} ELSE BOOLEAN) :
            /\ balance' = get_coin_balance(currency, fetched)
            /\ calls' = Append(calls,
                               Event("balance", currency, balance', fetched))
    /\ ps_pc' = "guard"
    /\ UNCHANGED <<environ, dry_run, filled,
                   acct, open, ps_state, ps_signal, ps_ret, owed>>
    /\ UNCHANGED loop_vars
    /\ UNCHANGED strat_vars
    /\ UNCHANGED notifier_vars

\* the sell guard of a holding branch
SellGuard ==
    /\ ps_pc = "guard"
    /\ IF guard_fires(balance)
       THEN /\ ps_pc' = "ret"
            /\ ps_ret' = "NONE"
            /\ filled' = [filled EXCEPT !.reset = TRUE]
       ELSE /\ ps_pc' = "sell"
            /\ UNCHANGED <<ps_ret, filled>>
    /\ UNCHANGED <<environ, dry_run, acct, open, ps_state, ps_signal, balance,
                   calls, owed>>
    /\ UNCHANGED loop_vars
    /\ UNCHANGED strat_vars
    /\ UNCHANGED notifier_vars

\* _execute_sell and the branch on its result
ExecuteSell ==
    /\ ps_pc = "sell"
    /\ LET symbol == held_symbol(ps_state)
           coin == CoinOf(symbol)
       IN \E success \in sell_results(symbol, balance) :
            /\ calls' = Append(calls, Event("sell", symbol, balance, success))
            /\ ps_ret' = after_sell(ps_state, success)
            /\ ps_pc' = IF notifies(success) THEN "notify" ELSE "ret"
            /\ IF success
               THEN /\ open' = open \ {coin}
                    /\ filled' = Fill("sell", symbol)
                    /\ owed' = [state |-> ps_state, signal |-> ps_signal]
                    /\ IF dry_run
                       THEN UNCHANGED acct
                       ELSE acct' = [acct EXCEPT ![coin] = acct[coin] - balance]
               ELSE UNCHANGED <<open, owed, acct, filled>>
    /\ UNCHANGED <<environ, dry_run, ps_state, ps_signal, balance>>
    /\ UNCHANGED loop_vars
    /\ UNCHANGED strat_vars
    /\ UNCHANGED notifier_vars

\* send_telegram_message in a success branch: it returns when the message was
\* delivered and when the send failed with a caught exception
Notify ==
    /\ ps_pc = "notify"
    /\ \E outcome \in PostOutcomes :
         /\ calls' = Append(calls, Event("notify", "", 0, outcome = "ok"))
         /\ ps_pc' = IF send_returns(outcome) THEN "ret" ELSE "raised"
    /\ UNCHANGED <<environ, dry_run, filled,
                   acct, open, ps_state, ps_signal, balance, ps_ret,
                   owed>>
    /\ UNCHANGED loop_vars
    /\ UNCHANGED strat_vars
    /\ UNCHANGED notifier_vars

----------------------------------------------------------------------------
(* The signal engine of strategy.py *)

\* the longest candle window the exchange answers with
MaxLen == 4

\* the longest z-score series handed to _determine_signal directly
MaxHist == 3

\* the close prices of the bounded market
BaseCloses == {1, 2, 3}

QuoteCloses == {0, 1, 2}

\* the constructor parameters of PairsTradingStrategy.  The z-score of the
\* last point of a window of w points is at most (w - 1) / sqrt(w) in size, so
\* the window of 3 goes with an entry threshold of 1.
rolling_window == 3

entry_threshold == 1

exit_threshold == 0

\* Optional[pd.Series]: None, or a series
None == [ok |-> FALSE, v |-> <<>>]

Some(s) == [ok |-> TRUE, v |-> s]

\* an element of the spread series: the float n / d.  Pandas divides by zero
\* without raising: d = 0 stands for inf (n # 0) or NaN (n = 0).
Ratio(n, d) == [n |-> n, d |-> d]

ratio_isna(r) == r.d = 0 /\ r.n = 0

\* an element of the z-score series: NaN, or the float
\*   a * sqrt(rolling_window - 1) / sqrt(rolling_window * b),   b > 0,
\* which is (x - mean) / std of a window in exact arithmetic
NaN == [nan |-> TRUE, a |-> 0, b |-> 0]

ZValue(a, b) == [nan |-> FALSE, a |-> a, b |-> b]

isna(z) == z.nan

\* series.dropna() of a z-score series
dropna(series) == SelectSeq(series, LAMBDA z : ~isna(z))

\* the square of a defined z-score, times rolling_window * z.b
ZSquare(z) == z.a * z.a * (rolling_window - 1)

\* t squared in the same scale
TSquare(z, t) == t * t * rolling_window * z.b

\* z > t and z < t for a float z and an integer threshold t; every comparison
\* with NaN is false
z_gt(z, t) ==
    IF isna(z) THEN FALSE
    ELSE IF t >= 0 THEN z.a > 0 /\ ZSquare(z) > TSquare(z, t)
    ELSE z.a >= 0 \/ ZSquare(z) < TSquare(z, t)

z_lt(z, t) ==
    IF isna(z) THEN FALSE
    ELSE IF t <= 0 THEN z.a < 0 /\ ZSquare(z) > TSquare(z, t)
    ELSE z.a <= 0 \/ ZSquare(z) < TSquare(z, t)

RECURSIVE SumTo(_, _)
SumTo(f, n) == IF n = 0 THEN 0 ELSE f[n] + SumTo(f, n - 1)

RECURSIVE ProdTo(_, _)
ProdTo(f, n) == IF n = 0 THEN 1 ELSE f[n] * ProdTo(f, n - 1)

\* the row of a DataFrame: its index value and its close
Row(timestamp, close) == [timestamp |-> timestamp, close |-> close]

\* the index of a price series, and its value at an index value
Index(prices) == {prices[i].timestamp : i \in DOMAIN prices}

At(prices, t) ==
    prices[CHOOSE i \in DOMAIN prices : prices[i].timestamp = t].close

\* a set of index values in ascending order
RECURSIVE Ascending(_)
Ascending(S) ==
    IF S = {} THEN <<>>
    ELSE LET first == CHOOSE t \in S : \A u \in S : t <= u
         IN <<first>> \o Ascending(S \ {first})

\* base_prices / quote_prices of two pd.Series: pandas aligns the operands on
\* the union of their indexes, in ascending order, and gives NaN at an index
\* value that one operand lacks
divide(base_prices, quote_prices) ==
    LET index == Ascending(Index(base_prices) \cup Index(quote_prices))
    IN [k \in DOMAIN index |->
          IF index[k] \in Index(base_prices) \cap Index(quote_prices)
          THEN Ratio(At(base_prices, index[k]), At(quote_prices, index[k]))
          ELSE Ratio(0, 0)]

\* fetch_data: None when fetch_ohlcv raises or answers with an empty list, else
\* the DataFrame, of which the model keeps the index and the close column
fetch_data(answer) ==
    IF answer.raised THEN None
    ELSE IF Len(answer.candles) = 0 THEN None
    ELSE Some(answer.candles)

\* _calculate_spread testing only the latest quote close for zero
calculate_spread_latest_only(base_prices, quote_prices) ==
    IF Len(base_prices) = 0 \/ Len(quote_prices) = 0 THEN None
    ELSE IF quote_prices[Len(quote_prices)].close = 0 THEN None
    ELSE Some(divide(base_prices, quote_prices))

\* _calculate_spread
calculate_spread(base_prices, quote_prices) ==
    IF Len(base_prices) = 0 \/ Len(quote_prices) = 0 THEN None
    ELSE IF \E i \in DOMAIN quote_prices : quote_prices[i].close = 0 THEN None
    ELSE Some(divide(base_prices, quote_prices))

\* spread.rolling(window).mean() and .std() at index i >= rolling_window, over
\* the common denominator den of the window: the window's values are X[k] / den,
\* the mean is sum / (w * den), the variance (ddof = 1) is
\* dev / (w * (w - 1) * den * den), and w * (x - mean) is lead / den
rolling(spread, i) ==
    LET w == rolling_window
        win == [k \in 1..w |-> spread[i - w + k]]
        den == ProdTo([k \in 1..w |-> win[k].d], w)
        X == [k \in 1..w |->
                IF win[k].d = 0 THEN 0 ELSE win[k].n * (den \div win[k].d)]
        sum == SumTo(X, w)
        squares == SumTo([k \in 1..w |-> X[k] * X[k]], w)
    IN [defined |-> \A k \in 1..w : win[k].d # 0,
        den |-> den,
        sum |-> sum,
        lead |-> w * X[w] - sum,
        dev |-> w * squares - sum * sum]

\* one element of (spread - rolling_mean) / rolling_std with the zero std left
\* in place
z_score_at_unguarded(spread, i) ==
    IF i < rolling_window THEN NaN
    ELSE IF ~rolling(spread, i).defined THEN NaN
    ELSE ZValue(rolling(spread, i).lead, rolling(spread, i).dev)

\* one element of (spread - rolling_mean) / rolling_std, the zero std replaced
\* by NaN
z_score_at(spread, i) ==
    IF i < rolling_window THEN NaN
    ELSE IF ~rolling(spread, i).defined THEN NaN
    ELSE IF rolling(spread, i).dev = 0 THEN NaN
    ELSE ZValue(rolling(spread, i).lead, rolling(spread, i).dev)

\* _calculate_z_score with "<=" in the test of the length
calculate_z_score_longer_only(spread) ==
    IF Len(spread) = 0 THEN None
    ELSE IF Len(spread) <= rolling_window THEN None
    ELSE Some([i \in DOMAIN spread |-> z_score_at(spread, i)])

\* _calculate_z_score
calculate_z_score(spread) ==
    IF Len(spread) = 0 THEN None
    ELSE IF Len(spread) < rolling_window THEN None
    ELSE Some([i \in DOMAIN spread |-> z_score_at(spread, i)])

\* crossed_zero with ">=" and "<=" on the side of current_z
crossed_zero_inclusive(previous_z, current_z) ==
    \/ z_gt(previous_z, exit_threshold) /\ ~z_gt(current_z, exit_threshold)
    \/ z_lt(previous_z, exit_threshold) /\ ~z_lt(current_z, exit_threshold)

\* crossed_zero of _determine_signal
crossed_zero(previous_z, current_z) ==
    \/ z_gt(previous_z, exit_threshold) /\ z_lt(current_z, exit_threshold)
    \/ z_lt(previous_z, exit_threshold) /\ z_gt(current_z, exit_threshold)

\* _determine_signal with ">=" and "<=" in the two entry tests
determine_signal_inclusive(current_z, z_score_history) ==
    IF isna(current_z) THEN "HOLD"
    ELSE IF ~z_lt(current_z, entry_threshold) THEN "SHORT_BTC_LONG_ETH"
    ELSE IF ~z_gt(current_z, 0 - entry_threshold) THEN "LONG_BTC_SHORT_ETH"
    ELSE LET valid_z == dropna(z_score_history)
         IN IF /\ Len(valid_z) >= 2
               /\ crossed_zero(valid_z[Len(valid_z) - 1], current_z)
            THEN "CLOSE_POSITIONS"
            ELSE "HOLD"

\* _determine_signal with the zero-cross test ahead of the entry tests
determine_signal_cross_first(current_z, z_score_history) ==
    IF isna(current_z) THEN "HOLD"
    ELSE LET valid_z == dropna(z_score_history)
         IN IF /\ Len(valid_z) >= 2
               /\ crossed_zero(valid_z[Len(valid_z) - 1], current_z)
            THEN "CLOSE_POSITIONS"
            ELSE IF z_gt(current_z, entry_threshold)
            THEN "SHORT_BTC_LONG_ETH"
            ELSE IF z_lt(current_z, 0 - entry_threshold)
            THEN "LONG_BTC_SHORT_ETH"
            ELSE "HOLD"

\* _determine_signal
determine_signal(current_z, z_score_history) ==
    IF isna(current_z) THEN "HOLD"
    ELSE IF z_gt(current_z, entry_threshold) THEN "SHORT_BTC_LONG_ETH"
    ELSE IF z_lt(current_z, 0 - entry_threshold) THEN "LONG_BTC_SHORT_ETH"
    ELSE LET valid_z == dropna(z_score_history)
         IN IF /\ Len(valid_z) >= 2
               /\ crossed_zero(valid_z[Len(valid_z) - 1], current_z)
            THEN "CLOSE_POSITIONS"
            ELSE "HOLD"

\* "spread_series is None or spread_series.dropna().empty"
spread_failed(series) ==
    ~series.ok \/ \A i \in DOMAIN series.v : ratio_isna(series.v[i])

\* "z_score_series is None or z_score_series.dropna().empty"
z_score_failed(series) == ~series.ok \/ Len(dropna(series.v)) = 0

\* a failure return that leaves is_data_valid at the dataclass default
failure_result_default_valid(btc_close, eth_close, error_message) ==
    [signal |-> "HOLD", z_score |-> 0, spread |-> 0, spread_mean |-> 0,
     spread_std |-> 0, btc_close |-> btc_close, eth_close |-> eth_close,
     is_data_valid |-> TRUE, error_message |-> error_message]

\* a failure return with 0.0 for both closes whatever the stage
failure_result_zero_closes(btc_close, eth_close, error_message) ==
    [signal |-> "HOLD", z_score |-> 0, spread |-> 0, spread_mean |-> 0,
     spread_std |-> 0, btc_close |-> 0, eth_close |-> 0,
     is_data_valid |-> FALSE, error_message |-> error_message]

\* the StrategyResult of the three failure returns of get_signal
failure_result(btc_close, eth_close, error_message) ==
    [signal |-> "HOLD", z_score |-> 0, spread |-> 0, spread_mean |-> 0,
     spread_std |-> 0, btc_close |-> btc_close, eth_close |-> eth_close,
     is_data_valid |-> FALSE, error_message |-> error_message]

\* the StrategyResult of the last return of get_signal; spread_std carries the
\* variance it is the root of
success_result(base, quote, spread, z_scores) ==
    LET n == Len(spread)
        current_z_score == z_scores[n]
        stats == rolling(spread, n)
    IN [signal |-> determine_signal(current_z_score, z_scores),
        z_score |-> current_z_score,
        spread |-> spread[n],
        spread_mean |-> IF stats.defined
                        THEN Ratio(stats.sum, rolling_window * stats.den)
                        ELSE Ratio(0, 0),
        spread_std |-> IF stats.defined
                       THEN Ratio(stats.dev,
                                  rolling_window * (rolling_window - 1)
                                    * stats.den * stats.den)
                       ELSE Ratio(0, 0),
        btc_close |-> base[Len(base)].close,
        eth_close |-> quote[Len(quote)].close,
        is_data_valid |-> TRUE, error_message |-> ""]

\* get_signal: the values of its locals and the StrategyResult it returns
get_signal(mkt) ==
    LET base == fetch_data(mkt.base)
        quote == fetch_data(mkt.quote)
        spread == calculate_spread(base.v, quote.v)
        z_scores == calculate_z_score(spread.v)
    IN IF ~base.ok \/ ~quote.ok
       THEN [df_base |-> base, df_quote |-> quote, spread_series |-> None,
             z_score_series |-> None, determined |-> FALSE,
             result |-> failure_result(0, 0,
                 "OHLCV fetch returned None for one or both symbols.")]
       ELSE IF spread_failed(spread)
       THEN [df_base |-> base, df_quote |-> quote, spread_series |-> spread,
             z_score_series |-> None, determined |-> FALSE,
             result |-> failure_result(base.v[Len(base.v)].close,
                                       quote.v[Len(quote.v)].close,
                 "Spread series is empty after calculation.")]
       ELSE IF z_score_failed(z_scores)
       THEN [df_base |-> base, df_quote |-> quote, spread_series |-> spread,
             z_score_series |-> z_scores, determined |-> FALSE,
             result |-> failure_result(base.v[Len(base.v)].close,
                                       quote.v[Len(quote.v)].close,
                 "Z-score series is empty after calculation.")]
       ELSE [df_base |-> base, df_quote |-> quote, spread_series |-> spread,
             z_score_series |-> z_scores, determined |-> TRUE,
             result |-> success_result(base.v, quote.v, spread.v, z_scores.v)]

\* no StrategyResult yet
NoStrategyResult == failure_result(0, 0, "")

\* the engine's variables outside SpecSig
StratIdle ==
    /\ market = [base |-> [raised |-> TRUE, candles |-> <<>>],
                 quote |-> [raised |-> TRUE, candles |-> <<>>]]
    /\ sg_pc = "off"
    /\ df_base = None
    /\ df_quote = None
    /\ spread_series = None
    /\ z_score_series = None
    /\ sg_result = NoStrategyResult
    /\ ds_called = FALSE
    /\ spread_out = None
    /\ ds_history = <<>>
    /\ ds_out = NoState
    /\ z_out = None

----------------------------------------------------------------------------
(* SpecPS: _process_signal called with every state and signal *)

NoResult == [signal |-> "HOLD", is_data_valid |-> FALSE]

InitPS ==
    /\ environ \in Environs
    /\ dry_run = DRY_RUN(environ)
    /\ acct \in [Coins -> 0..MaxBal]
    /\ open = {}
    /\ filled = NoFill
    /\ position_state = "NONE"
    /\ cycle = 0
    /\ pc = "unit"
    /\ result = NoResult
    /\ engine_signal = "HOLD"
    /\ ps_pc = "idle"
    /\ ps_state = "NONE"
    /\ ps_signal = "HOLD"
    /\ balance = 0
    /\ ps_ret = NoState
    /\ calls = <<>>
    /\ owed = NoOrder
    /\ final_state = NoState
    /\ StratIdle
    /\ NotifierIdle

\* a caller passes any state and any signal
UnitCall ==
    /\ pc = "unit"
    /\ \E state \in PositionState, signal \in Signal : Enter(state, signal)
    /\ owed' = NoOrder
    /\ UNCHANGED <<environ, dry_run, filled, acct, open>>
    /\ UNCHANGED loop_vars
    /\ UNCHANGED strat_vars
    /\ UNCHANGED notifier_vars

\* the call returns to its caller
UnitReturn ==
    /\ pc = "unit"
    /\ ps_pc = "ret"
    /\ ps_pc' = "idle"
    /\ UNCHANGED <<environ, dry_run, filled,
                   acct, open, ps_state, ps_signal, balance, ps_ret,
                   calls, owed>>
    /\ UNCHANGED loop_vars
    /\ UNCHANGED strat_vars
    /\ UNCHANGED notifier_vars

NextPS ==
    \/ UnitCall
    \/ Dispatch
    \/ ExecuteBuy
    \/ GetCoinBalance
    \/ SellGuard
    \/ ExecuteSell
    \/ Notify
    \/ UnitReturn

SpecPS == InitPS /\ [][NextPS]_vars

----------------------------------------------------------------------------
(* Spec: the orchestration loop of main() *)

\* the control points inside the try block of the loop
TryPoints == {"sleep", "get_signal", "hack", "check_valid", "call", "in_ps"}

\* the control points inside the except Exception handler
HandlerPoints == {"exc_notify", "exc_sleep"}

Init ==
    /\ environ \in Environs
    /\ dry_run = DRY_RUN(environ)
    /\ acct = [c \in Coins |-> 0]
    /\ open = {}
    /\ filled = NoFill
    /\ position_state = NoState
    /\ cycle = 0
    /\ pc = "start"
    /\ result = NoResult
    /\ engine_signal = "HOLD"
    /\ ps_pc = "idle"
    /\ ps_state = "NONE"
    /\ ps_signal = "HOLD"
    /\ balance = 0
    /\ ps_ret = NoState
    /\ calls = <<>>
    /\ owed = NoOrder
    /\ final_state = NoState
    /\ StratIdle
    /\ NotifierIdle

ps_frame == <<ps_pc, ps_state, ps_signal, balance, ps_ret, calls>>

\* try: client = BinanceClient(...), which re-raises whatever ccxt raises
CreateClient ==
    /\ pc = "start"
    /\ \E constructed \in BOOLEAN :
         pc' = IF constructed THEN "init" ELSE "client_failed"
    /\ UNCHANGED <<environ, dry_run, filled,
                   acct, open, position_state, cycle, result,
                   engine_signal, owed, final_state>>
    /\ UNCHANGED ps_frame
    /\ UNCHANGED strat_vars
    /\ UNCHANGED notifier_vars

\* variant: the except clause logs the failure and main() goes on
ClientFailedContinues ==
    /\ pc = "client_failed"
    /\ pc' = "init"
    /\ UNCHANGED <<environ, dry_run, filled,
                   acct, open, position_state, cycle, result,
                   engine_signal, owed, final_state>>
    /\ UNCHANGED ps_frame
    /\ UNCHANGED strat_vars
    /\ UNCHANGED notifier_vars

\* except Exception: logger.critical(...); sys.exit(1)
ClientFailedExit ==
    /\ pc = "client_failed"
    /\ pc' = "aborted"
    /\ UNCHANGED <<environ, dry_run, filled,
                   acct, open, position_state, cycle, result,
                   engine_signal, owed, final_state>>
    /\ UNCHANGED ps_frame
    /\ UNCHANGED strat_vars
    /\ UNCHANGED notifier_vars

\* the strategy object, the start notification, position_state =
\* PositionState.NONE and cycle = 0; the while loop is entered
EnterLoop ==
    /\ pc = "init"
    /\ position_state' = "NONE"
    /\ cycle' = 0
    /\ pc' = "sleep"
    /\ UNCHANGED <<environ, dry_run, filled,
                   acct, open, result, engine_signal, owed,
                   final_state>>
    /\ UNCHANGED ps_frame
    /\ UNCHANGED strat_vars
    /\ UNCHANGED notifier_vars

\* time.sleep(POLL_INTERVAL_SECONDS); cycle += 1
Sleep ==
    /\ pc = "sleep"
    /\ cycle < MaxCycles
    /\ cycle' = cycle + 1
    /\ pc' = "get_signal"
    /\ UNCHANGED <<environ, dry_run, filled,
                   acct, open, position_state, result, engine_signal,
                   owed, final_state>>
    /\ UNCHANGED ps_frame
    /\ UNCHANGED strat_vars
    /\ UNCHANGED notifier_vars

\* strategy.get_signal(): a valid result with the signal of determine_signal,
\* or a failure result with HOLD
GetSignal ==
    /\ pc = "get_signal"
    /\ \E valid \in BOOLEAN, s \in Signal :
         result' = IF valid THEN [signal |-> s, is_data_valid |-> TRUE]
                   ELSE NoResult
    /\ engine_signal' = result'.signal
    /\ pc' = "hack"
    /\ UNCHANGED <<environ, dry_run, filled,
                   acct, open, position_state, cycle, owed,
                   final_state>>
    /\ UNCHANGED ps_frame
    /\ UNCHANGED strat_vars
    /\ UNCHANGED notifier_vars

\* strategy.get_signal() raises: fetch_data builds the DataFrame outside its try
GetSignalRaises ==
    /\ pc = "get_signal"
    /\ pc' = "exc_notify"
    /\ UNCHANGED <<environ, dry_run, filled,
                   acct, open, position_state, cycle, result,
                   engine_signal, owed, final_state>>
    /\ UNCHANGED ps_frame
    /\ UNCHANGED strat_vars
    /\ UNCHANGED notifier_vars

\* the signal the test block of the loop writes into the result
hack_signal(state, signal) ==
    IF state = "NONE" THEN "LONG_BTC_SHORT_ETH"
    ELSE IF state = "HOLDING_BTC" THEN "CLOSE_POSITIONS"
    ELSE signal

\* the test block between get_signal() and the validity check
Hack ==
    /\ pc = "hack"
    /\ result' = [result EXCEPT
                    !.signal = hack_signal(position_state, result.signal)]
    /\ pc' = "check_valid"
    /\ UNCHANGED <<environ, dry_run, filled,
                   acct, open, position_state, cycle, engine_signal,
                   owed, final_state>>
    /\ UNCHANGED ps_frame
    /\ UNCHANGED strat_vars
    /\ UNCHANGED notifier_vars

\* variant: the validity test is missing and every result is executed
CheckValidAlways ==
    /\ pc = "check_valid"
    /\ pc' = "call"
    /\ UNCHANGED <<environ, dry_run, filled,
                   acct, open, position_state, cycle, result,
                   engine_signal, owed, final_state>>
    /\ UNCHANGED <<ps_pc, ps_state, ps_signal, balance, ps_ret, calls>>
    /\ UNCHANGED strat_vars
    /\ UNCHANGED notifier_vars

\* if not result.is_data_valid: continue
CheckValid ==
    /\ pc = "check_valid"
    /\ pc' = IF result.is_data_valid THEN "call" ELSE "sleep"
    /\ UNCHANGED <<environ, dry_run, filled,
                   acct, open, position_state, cycle, result,
                   engine_signal, owed, final_state>>
    /\ UNCHANGED ps_frame
    /\ UNCHANGED strat_vars
    /\ UNCHANGED notifier_vars

\* _process_signal(signal=result.signal, state=position_state, ...)
CallProcessSignal ==
    /\ pc = "call"
    /\ Enter(position_state, result.signal)
    /\ pc' = "in_ps"
    /\ UNCHANGED <<environ, dry_run, filled,
                   acct, open, position_state, cycle, result,
                   engine_signal, owed, final_state>>
    /\ UNCHANGED strat_vars
    /\ UNCHANGED notifier_vars

\* position_state = <the value _process_signal returned>; cycle complete
AssignState ==
    /\ pc = "in_ps"
    /\ ps_pc = "ret"
    /\ position_state' = ps_ret
    /\ owed' = NoOrder
    /\ ps_pc' = "idle"
    /\ pc' = "sleep"
    /\ UNCHANGED <<environ, dry_run, filled,
                   acct, open, cycle, result, engine_signal,
                   final_state>>
    /\ UNCHANGED <<ps_state, ps_signal, balance, ps_ret, calls>>
    /\ UNCHANGED strat_vars
    /\ UNCHANGED notifier_vars

\* KeyboardInterrupt raised anywhere inside the try block
KeyboardInterrupt ==
    /\ pc \in TryPoints
    /\ pc' = "shutdown"
    /\ ps_pc' = "idle"
    /\ UNCHANGED <<environ, dry_run, filled,
                   acct, open, position_state, cycle, result,
                   engine_signal, owed, final_state>>
    /\ UNCHANGED <<ps_state, ps_signal, balance, ps_ret, calls>>
    /\ UNCHANGED strat_vars
    /\ UNCHANGED notifier_vars

\* except KeyboardInterrupt: log and notify the final state, sys.exit(0)
Shutdown ==
    /\ pc = "shutdown"
    /\ final_state' = position_state
    /\ pc' = "exited"
    /\ UNCHANGED <<environ, dry_run, filled,
                   acct, open, position_state, cycle, result,
                   engine_signal, owed>>
    /\ UNCHANGED ps_frame
    /\ UNCHANGED strat_vars
    /\ UNCHANGED notifier_vars

\* except Exception: log and send the alert
ExcNotify ==
    /\ pc = "exc_notify"
    /\ pc' = "exc_sleep"
    /\ UNCHANGED <<environ, dry_run, filled,
                   acct, open, position_state, cycle, result,
                   engine_signal, owed, final_state>>
    /\ UNCHANGED ps_frame
    /\ UNCHANGED strat_vars
    /\ UNCHANGED notifier_vars

\* variant: the handler ends the process after its alert
ExcSleepExits ==
    /\ pc = "exc_sleep"
    /\ pc' = "exited"
    /\ UNCHANGED <<environ, dry_run, filled,
                   acct, open, position_state, cycle, result,
                   engine_signal, owed, final_state>>
    /\ UNCHANGED ps_frame
    /\ UNCHANGED strat_vars
    /\ UNCHANGED notifier_vars

\* variant: the handler also puts the position state back to NONE
ExcSleepResets ==
    /\ pc = "exc_sleep"
    /\ pc' = "sleep"
    /\ position_state' = "NONE"
    /\ UNCHANGED <<environ, dry_run, filled,
                   acct, open, cycle, result, engine_signal,
                   owed, final_state>>
    /\ UNCHANGED ps_frame
    /\ UNCHANGED strat_vars
    /\ UNCHANGED notifier_vars

\* except Exception: time.sleep(POLL_INTERVAL_SECONDS), then the next iteration
ExcSleep ==
    /\ pc = "exc_sleep"
    /\ pc' = "sleep"
    /\ UNCHANGED <<environ, dry_run, filled,
                   acct, open, position_state, cycle, result,
                   engine_signal, owed, final_state>>
    /\ UNCHANGED ps_frame
    /\ UNCHANGED strat_vars
    /\ UNCHANGED notifier_vars

\* KeyboardInterrupt raised inside the except Exception handler: no clause of
\* the same try statement catches it and main() ends with the traceback
InterruptInHandler ==
    /\ pc \in HandlerPoints
    /\ pc' = "crashed"
    /\ UNCHANGED <<environ, dry_run, filled,
                   acct, open, position_state, cycle, result,
                   engine_signal, owed, final_state>>
    /\ UNCHANGED ps_frame
    /\ UNCHANGED strat_vars
    /\ UNCHANGED notifier_vars

\* the steps of _process_signal run inside the loop's call
InCall(step) == pc = "in_ps" /\ step

Next ==
    \/ CreateClient
    \/ ClientFailedExit
    \/ EnterLoop
    \/ Sleep
    \/ GetSignal
    \/ GetSignalRaises
    \/ Hack
    \/ CheckValid
    \/ CallProcessSignal
    \/ InCall(Dispatch)
    \/ InCall(ExecuteBuy)
    \/ InCall(GetCoinBalance)
    \/ InCall(SellGuard)
    \/ InCall(ExecuteSell)
    \/ InCall(Notify)
    \/ AssignState
    \/ KeyboardInterrupt
    \/ Shutdown
    \/ ExcNotify
    \/ ExcSleep
    \/ InterruptInHandler

Spec == Init /\ [][Next]_vars

----------------------------------------------------------------------------
(* SpecSig: the signal engine on every candle window of the bounded market *)

\* the floats of the direct calls of _determine_signal: NaN, 0, and on both
\* sides 0.67, exactly 1, 1.15 and 1.73
ZSamples ==
    {NaN} \cup ({ZValue(a, b) : a \in {0 - 3, 0 - 2, 0, 2, 3}, b \in {2, 6}}
                  \ {ZValue(0, 6)})

\* fetch_ohlcv raised
Raised == [raised |-> TRUE, candles |-> <<>>]

\* fetch_ohlcv answered with the n candles from candle period t on, whose
\* closes are in S
Answers(S, n, t) ==
    {[raised |-> FALSE,
      candles |-> [i \in 1..n |-> Row(t + i - 1, c[i])]] : c \in [1..n -> S]}

\* the candle periods the quote window starts at: the base window's, or the
\* next one when a candle closes between the two fetch_ohlcv calls
QuoteStarts == {1, 2}

\* the two symbols are answered with windows of one length, or one of the
\* calls raises or answers with an empty list
BaseAnswers(n) ==
    Answers(BaseCloses, n, 1) \cup Answers(BaseCloses, 0, 1) \cup {Raised}

QuoteAnswers(n) ==
    UNION {Answers(QuoteCloses, n, t) : t \in QuoteStarts}
        \cup Answers(QuoteCloses, 0, 1) \cup {Raised}

machine_vars == <<environ, dry_run, acct, open, filled, position_state, cycle, pc, result,
                  engine_signal, ps_pc, ps_state, ps_signal, balance, ps_ret,
                  calls, owed, final_state>>

InitSig ==
    /\ environ = Unset
    /\ dry_run = DRY_RUN(environ)
    /\ acct = [c \in Coins |-> 0]
    /\ open = {}
    /\ filled = NoFill
    /\ position_state = "NONE"
    /\ cycle = 0
    /\ pc = "engine"
    /\ result = NoResult
    /\ engine_signal = "HOLD"
    /\ ps_pc = "idle"
    /\ ps_state = "NONE"
    /\ ps_signal = "HOLD"
    /\ balance = 0
    /\ ps_ret = NoState
    /\ calls = <<>>
    /\ owed = NoOrder
    /\ final_state = NoState
    /\ \/ /\ \E n \in 1..MaxLen :
                \E b \in BaseAnswers(n), q \in QuoteAnswers(n) :
                  market = [base |-> b, quote |-> q]
          /\ ds_history = <<>>
       \/ /\ market = [base |-> Raised, quote |-> Raised]
          /\ \E n \in 1..MaxHist : ds_history \in [1..n -> ZSamples]
    /\ ds_out = NoState
    /\ z_out = None
    /\ NotifierIdle
    /\ sg_pc = "start"
    /\ df_base = None
    /\ df_quote = None
    /\ spread_series = None
    /\ z_score_series = None
    /\ sg_result = NoStrategyResult
    /\ ds_called = FALSE
    /\ spread_out = None

\* strategy.get_signal() on the market's answers
GetSignalCall ==
    /\ sg_pc = "start"
    /\ LET run == get_signal(market)
       IN /\ df_base' = run.df_base
          /\ df_quote' = run.df_quote
          /\ spread_series' = run.spread_series
          /\ z_score_series' = run.z_score_series
          /\ ds_called' = run.determined
          /\ sg_result' = run.result
    /\ sg_pc' = "returned"
    /\ UNCHANGED <<market, spread_out, ds_history, ds_out, z_out>>
    /\ UNCHANGED machine_vars
    /\ UNCHANGED notifier_vars

\* _calculate_spread called on the close columns themselves, as a unit test
\* calls it
CalculateSpreadCall ==
    /\ sg_pc = "returned"
    /\ spread_out' = calculate_spread(market.base.candles, market.quote.candles)
    /\ sg_pc' = "done"
    /\ UNCHANGED <<market, df_base, df_quote, spread_series, z_score_series,
                   sg_result, ds_called, ds_history, ds_out, z_out>>
    /\ UNCHANGED machine_vars
    /\ UNCHANGED notifier_vars

\* the series handed to the direct call of _calculate_z_score: the one the
\* direct call of _calculate_spread returned, or an empty series when it
\* returned none
SpreadInput == spread_out.v

\* _calculate_z_score called on a spread series, as a unit test calls it
CalculateZScoreCall ==
    /\ sg_pc = "done"
    /\ z_out' = calculate_z_score(SpreadInput)
    /\ sg_pc' = "z_done"
    /\ UNCHANGED <<market, df_base, df_quote, spread_series, z_score_series,
                   sg_result, ds_called, spread_out, ds_history, ds_out>>
    /\ UNCHANGED machine_vars
    /\ UNCHANGED notifier_vars

\* _determine_signal called on a z-score series and its latest value, as a
\* unit test calls it
DetermineSignalCall ==
    /\ ds_history # <<>>
    /\ ds_out = NoState
    /\ ds_out' = determine_signal(ds_history[Len(ds_history)], ds_history)
    /\ UNCHANGED <<market, sg_pc, df_base, df_quote, spread_series,
                   z_score_series, sg_result, ds_called, spread_out,
                   ds_history, z_out>>
    /\ UNCHANGED machine_vars
    /\ UNCHANGED notifier_vars

NextSig ==
    \/ GetSignalCall
    \/ CalculateSpreadCall
    \/ CalculateZScoreCall
    \/ DetermineSignalCall

SpecSig == InitSig /\ [][NextSig]_vars

----------------------------------------------------------------------------
(* SpecNotify: send_telegram_message called with every configuration *)

\* a message of n characters, no long run of which repeats
Text(n) == [i \in 1..n |-> i % 10]

\* the lengths of the messages: empty, short, and around the limit
TextLengths ==
    {0, 1, TelegramLimit - 1, TelegramLimit, TelegramLimit + 1,
     2 * TelegramLimit}

InitNotify ==
    /\ environ = Unset
    /\ dry_run = DRY_RUN(environ)
    /\ acct = [c \in Coins |-> 0]
    /\ open = {}
    /\ filled = NoFill
    /\ position_state = "NONE"
    /\ cycle = 0
    /\ pc = "notifier"
    /\ result = NoResult
    /\ engine_signal = "HOLD"
    /\ ps_pc = "idle"
    /\ ps_state = "NONE"
    /\ ps_signal = "HOLD"
    /\ balance = 0
    /\ ps_ret = NoState
    /\ calls = <<>>
    /\ owed = NoOrder
    /\ final_state = NoState
    /\ StratIdle
    /\ \E token \in Credentials, chat_id \in Credentials, n \in TextLengths :
         tg_call = [token |-> token, chat_id |-> chat_id, text |-> Text(n)]
    /\ tg_pc = "start"
    /\ tg_posts = <<>>

\* the credentials guard of send_telegram_message
SendGuard ==
    /\ tg_pc = "start"
    /\ tg_pc' = IF not_configured(tg_call.token, tg_call.chat_id)
                THEN "returned"
                ELSE "post"
    /\ UNCHANGED <<tg_call, tg_posts>>
    /\ UNCHANGED machine_vars
    /\ UNCHANGED strat_vars

\* requests.post of the truncated text, raise_for_status and the except
\* clauses
SendPost ==
    /\ tg_pc = "post"
    /\ \E outcome \in PostOutcomes :
         /\ tg_posts' = Append(tg_posts,
                               [text |-> truncated_text(tg_call.text),
                                outcome |-> outcome])
         /\ tg_pc' = IF send_returns(outcome) THEN "returned" ELSE "raised"
    /\ UNCHANGED tg_call
    /\ UNCHANGED machine_vars
    /\ UNCHANGED strat_vars

NextNotify ==
    \/ SendGuard
    \/ SendPost

SpecNotify == InitNotify /\ [][NextNotify]_vars

----------------------------------------------------------------------------
(* Properties of the position state machine, checked under SpecPS *)

\* the indices of the events of the current call with one of the given ops
Ops(ops) == {i \in DOMAIN calls : calls[i].op \in ops}

\* the call has reached its return statement
Returned == ps_pc = "ret"

\* the (state, signal) pairs of the transition table
EntryPair(state, signal) ==
    state = "NONE" /\ signal \in {"LONG_BTC_SHORT_ETH", "SHORT_BTC_LONG_ETH"}

ExitPair(state, signal) ==
    \/ state = "HOLDING_BTC" /\ signal \in {"CLOSE_POSITIONS", "SHORT_BTC_LONG_ETH"}
    \/ state = "HOLDING_ETH" /\ signal \in {"CLOSE_POSITIONS", "LONG_BTC_SHORT_ETH"}

NoActionPair(state, signal) ==
    \/ state = "NONE" /\ signal \in {"CLOSE_POSITIONS", "HOLD"}
    \/ state = "HOLDING_BTC" /\ signal \in {"LONG_BTC_SHORT_ETH", "HOLD"}
    \/ state = "HOLDING_ETH" /\ signal \in {"SHORT_BTC_LONG_ETH", "HOLD"}

\* the next state the table gives for a pair whose order succeeded
TableNext(state, signal) ==
    IF state = "NONE"
    THEN (IF signal = "LONG_BTC_SHORT_ETH" THEN "HOLDING_BTC" ELSE "HOLDING_ETH")
    ELSE "NONE"

\* C1: whenever an order placed by _process_signal fails (_execute_buy or
\* _execute_sell returned False), the state the call returns is the state it
\* was given, for every state and every signal.
C1_FailedOrderKeepsState ==
    (\E i \in Ops({"buy", "sell"}) : ~calls[i].ok) => ps_ret = ps_state

\* a sell failed while holding ETH
C1_Witness ==
    /\ Returned
    /\ ps_state = "HOLDING_ETH"
    /\ \E i \in Ops({"sell"}) : ~calls[i].ok

\* C2: from NONE an entry signal makes exactly one buy, of TRADE_AMOUNT_USDT on
\* the base symbol for LONG_BTC_SHORT_ETH and on the quote symbol for
\* SHORT_BTC_LONG_ETH, makes no balance query and no sell, and a successful
\* buy returns HOLDING_BTC, respectively HOLDING_ETH.
C2_EntryBuys ==
    (Returned /\ EntryPair(ps_state, ps_signal)) =>
        /\ Cardinality(Ops({"buy"})) = 1
        /\ Ops({"balance", "sell"}) = {}
        /\ calls[1].op = "buy"
        /\ calls[1].amount = TRADE_AMOUNT_USDT
        /\ calls[1].arg = (IF ps_signal = "LONG_BTC_SHORT_ETH"
                           THEN "BTC/USDT" ELSE "ETH/USDT")
        /\ calls[1].ok =>
             ps_ret = (IF ps_signal = "LONG_BTC_SHORT_ETH"
                       THEN "HOLDING_BTC" ELSE "HOLDING_ETH")

\* a successful buy of the quote symbol from NONE
C2_Witness ==
    /\ Returned
    /\ ps_state = "NONE"
    /\ ps_signal = "SHORT_BTC_LONG_ETH"
    /\ ps_ret = "HOLDING_ETH"
    /\ calls[1].ok

\* C3: from a holding state an exit signal (CLOSE or the opposite entry) that
\* observes a strictly positive balance makes exactly one sell, of the held
\* asset's symbol, makes no buy, and a successful sell returns NONE.
C3_ExitSells ==
    (Returned /\ ExitPair(ps_state, ps_signal) /\ balance > 0) =>
        /\ Cardinality(Ops({"sell"})) = 1
        /\ Ops({"buy"}) = {}
        /\ \A i \in Ops({"sell"}) :
             /\ calls[i].arg = (IF ps_state = "HOLDING_BTC"
                                THEN "BTC/USDT" ELSE "ETH/USDT")
             /\ calls[i].ok => ps_ret = "NONE"

\* a successful sell of the base symbol on an opposite entry signal
C3_Witness ==
    /\ Returned
    /\ ps_state = "HOLDING_BTC"
    /\ ps_signal = "SHORT_BTC_LONG_ETH"
    /\ ps_ret = "NONE"
    /\ \E i \in Ops({"sell"}) : calls[i].ok /\ calls[i].amount > 0

\* C4: for the no-action pairs the call returns the state it was given and
\* makes no buy, no sell, no balance query and no notification.
C4_NoAction ==
    (Returned /\ NoActionPair(ps_state, ps_signal)) =>
        (ps_ret = ps_state /\ calls = <<>>)

\* HOLDING_ETH with SHORT_BTC_LONG_ETH has returned
C4_Witness ==
    /\ Returned
    /\ ps_state = "HOLDING_ETH"
    /\ ps_signal = "SHORT_BTC_LONG_ETH"
    /\ ps_ret = "HOLDING_ETH"

\* C5: sell guard: from a holding state an exit signal whose balance query
\* observes a balance that is not strictly positive returns NONE without a
\* sell and without a notification.
C5_SellGuard ==
    (Returned /\ ExitPair(ps_state, ps_signal) /\ balance <= 0) =>
        (ps_ret = "NONE" /\ Ops({"sell", "buy", "notify"}) = {})

\* the guard fired on a balance the exchange reported as zero
C5_Witness ==
    /\ Returned
    /\ ps_state = "HOLDING_BTC"
    /\ ps_signal = "CLOSE_POSITIONS"
    /\ ps_ret = "NONE"
    /\ \E i \in Ops({"balance"}) : calls[i].ok /\ calls[i].amount = 0

\* C10: a call of _process_signal places at most one order, and an opposite
\* entry signal while holding only closes: the call makes no buy and returns
\* NONE or the state it was given, never the opposite holding state.
C10_NoSameCycleReversal ==
    /\ Cardinality(Ops({"buy", "sell"})) <= 1
    /\ (Returned /\ ps_state # "NONE" /\ ExitPair(ps_state, ps_signal)) =>
          (Ops({"buy"}) = {} /\ ps_ret \in {"NONE", ps_state})

\* holding ETH, LONG_BTC_SHORT_ETH sold the position and returned NONE
C10_Witness ==
    /\ Returned
    /\ ps_state = "HOLDING_ETH"
    /\ ps_signal = "LONG_BTC_SHORT_ETH"
    /\ ps_ret = "NONE"
    /\ \E i \in Ops({"sell"}) : calls[i].ok

\* C11: a buy is only issued when the position state is NONE, a sell only
\* when it is HOLDING_BTC or HOLDING_ETH, and the symbol sold is the one the
\* state says is held.
C11_OrdersGatedByState ==
    /\ \A i \in Ops({"buy"}) : ps_state = "NONE"
    /\ \A i \in Ops({"sell"}) :
         \/ ps_state = "HOLDING_BTC" /\ calls[i].arg = "BTC/USDT"
         \/ ps_state = "HOLDING_ETH" /\ calls[i].arg = "ETH/USDT"

\* a sell of ETH/USDT was issued while holding ETH
C11_Witness ==
    /\ ps_state = "HOLDING_ETH"
    /\ \E i \in Ops({"sell"}) : calls[i].arg = "ETH/USDT"

\* the step places an order of the given kind
Placed(op) ==
    /\ Len(calls') = Len(calls) + 1
    /\ calls'[Len(calls')].op = op

\* C12: every sell is for the whole balance a balance query of the held
\* currency observed immediately before it in the same call of
\* _process_signal; in live mode that is the whole free balance of the
\* account.
C12_SellsFreshWholeBalance ==
    [][Placed("sell") =>
         /\ Len(calls) >= 1
         /\ calls[Len(calls)].op = "balance"
         /\ calls[Len(calls)].arg = (IF ps_state = "HOLDING_BTC"
                                     THEN "BTC" ELSE "ETH")
         /\ calls'[Len(calls')].amount = calls[Len(calls)].amount
         /\ ~dry_run =>
              calls'[Len(calls')].amount = acct[calls[Len(calls)].arg]]_vars

\* a live sell of a whole ETH balance of 2 has emptied the account
C12_Witness ==
    /\ ~dry_run
    /\ ps_state = "HOLDING_ETH"
    /\ acct["ETH"] = 0
    /\ \E i \in Ops({"sell"}) : calls[i].ok /\ calls[i].amount = 2

\* the state a (state, signal) pair leads to in live mode when no order fails
LiveSuccessNext(state, signal) ==
    IF EntryPair(state, signal)
    THEN (IF signal = "LONG_BTC_SHORT_ETH" THEN "HOLDING_BTC" ELSE "HOLDING_ETH")
    ELSE IF ExitPair(state, signal) THEN "NONE"
    ELSE state

\* C24: in paper-trading mode every buy and every sell reports success, every
\* balance query returns DRY_RUN_FAKE_BALANCE, and none of the three calls the
\* exchange; the state a call returns in paper-trading mode is, for every
\* (state, signal) pair, the state a live call returns when none of its orders
\* fails.
C24_PaperTradingMirrorsLive ==
    /\ dry_run =>
         \A i \in DOMAIN calls :
             /\ ~calls[i].api
             /\ calls[i].op \in {"buy", "sell"} => calls[i].ok
             /\ calls[i].op = "balance" =>
                  calls[i].amount = DRY_RUN_FAKE_BALANCE
    /\ Returned /\ (dry_run \/ \A i \in Ops({"buy", "sell"}) : calls[i].ok)
         => ps_ret = LiveSuccessNext(ps_state, ps_signal)

\* a paper-trading exit: the fake balance was sold with success and the call
\* returns NONE
C24_Witness ==
    /\ dry_run
    /\ Returned
    /\ ExitPair(ps_state, ps_signal)
    /\ \E i \in Ops({"sell"}) :
         calls[i].ok /\ calls[i].amount = DRY_RUN_FAKE_BALANCE
    /\ ps_ret = "NONE"

\* the settings the comment of config.py names as activating live trading
ExplicitFalse ==
    {Setting(v) : v \in {Str(<<"F", "a", "l", "s", "e">>),
                         Str(<<"f", "a", "l", "s", "e">>),
                         Str(<<"F", "A", "L", "S", "E">>)}}

\* C25: unless DRY_RUN is set to False, false or FALSE, the bot trades on
\* paper: with the variable missing, set to "True" or set to a mistyped value,
\* no call of _process_signal places an order on the exchange or queries it.
C25_LiveOnlyOnExplicitFalse ==
    environ \notin ExplicitFalse =>
        /\ dry_run
        /\ \A i \in DOMAIN calls : ~calls[i].api

\* C28: send_telegram_message does not raise into _process_signal, delivered
\* or not: a call that sent a notification still returns, and returns the
\* state of its success branch whether the notification was delivered or
\* failed.
C28_NotificationNeverRaises ==
    /\ ps_pc # "raised"
    /\ Returned /\ Ops({"notify"}) # {}
         => ps_ret = LiveSuccessNext(ps_state, ps_signal)

\* an entry whose notification failed has returned the holding state
C28_Witness ==
    /\ Returned
    /\ \E i \in Ops({"notify"}) : ~calls[i].ok
    /\ ps_state = "NONE"
    /\ ps_ret = "HOLDING_ETH"

\* the balance queries whose exchange call failed
FailedBalanceQueries == {i \in Ops({"balance"}) : ~calls[i].ok}

\* C30: the balance query returns whatever the exchange call does: in live
\* mode a failed exchange call yields 0, and the exit that asked for the
\* balance then goes to the sell guard, sells nothing and returns NONE.
C30_UnreadableBalanceIsNothingToSell ==
    /\ \A i \in FailedBalanceQueries : ~dry_run /\ calls[i].amount = 0
    /\ FailedBalanceQueries # {} =>
         /\ ps_pc \in {"guard", "ret", "idle"}
         /\ Ops({"sell"}) = {}
         /\ Returned => ps_ret = "NONE"

\* an exit from a held position returned while the balance was unreadable
C30_Witness ==
    /\ Returned
    /\ FailedBalanceQueries # {}
    /\ ps_state = "HOLDING_BTC"
    /\ acct["BTC"] > 0

\* the orders of the current call that succeeded
SucceededOrders == {i \in Ops({"buy", "sell"}) : calls[i].ok}

\* the call of send_telegram_message at position n comes right after an order
\* that succeeded
FollowsSuccess(n) ==
    /\ n > 1
    /\ n - 1 \in SucceededOrders

\* the call has returned or is about to
Returning == ps_pc \in {"ret", "idle"}

\* C38: every call of send_telegram_message that _process_signal makes comes
\* right after an order that succeeded, and once the call returns every order
\* that succeeded has been followed by one: one notification per successful
\* order, none after a failed order, a no-action pair or a sell-guard reset.
C38_OneNotificationPerSuccess ==
    /\ \A n \in Ops({"notify"}) : FollowsSuccess(n)
    /\ Returning =>
         /\ \A i \in SucceededOrders : i + 1 \in Ops({"notify"})
         /\ Cardinality(Ops({"notify"})) = Cardinality(SucceededOrders)

\* an exit has sold, notified once and returned
C38_Witness ==
    /\ Returned
    /\ \E i \in SucceededOrders : calls[i].op = "sell"
    /\ Cardinality(Ops({"notify"})) = 1
    /\ ps_ret = "NONE"

\* the call placed a simulated order op on symbol, which succeeded
Simulated(op, symbol) ==
    \E i \in Ops({op}) :
        /\ calls[i].arg = symbol
        /\ calls[i].ok
        /\ ~calls[i].api

\* C39: in paper-trading mode the sell guard never fires on the fake balance:
\* a call with an exit pair places a simulated sell of the held symbol and
\* returns NONE, and a call with an entry pair places a simulated buy and
\* returns the holding state of the table.
C39_PaperTradingAlwaysTransitions ==
    dry_run =>
        /\ ps_pc = "guard" => ~guard_fires(balance)
        /\ Returned /\ ExitPair(ps_state, ps_signal) =>
              /\ Simulated("sell", held_symbol(ps_state))
              /\ ps_ret = "NONE"
        /\ Returned /\ EntryPair(ps_state, ps_signal) =>
              /\ Simulated("buy", entry_symbol(ps_signal))
              /\ ps_ret = TableNext(ps_state, ps_signal)
              /\ ps_ret # "NONE"

\* a paper-trading exit from HOLDING_ETH on a reversal signal has returned
C39_Witness ==
    /\ dry_run
    /\ Returned
    /\ ps_state = "HOLDING_ETH"
    /\ ps_signal = "LONG_BTC_SHORT_ETH"
    /\ Simulated("sell", SYMBOL_QUOTE)

----------------------------------------------------------------------------
(* Properties of the loop, checked under Spec *)

\* C6: at most one position is open: no buy order is placed while the account
\* still holds an asset acquired by an earlier successful buy and not sold
\* since.
C6_AtMostOnePosition == [][Placed("buy") => open = {}]_vars

\* C7: in live mode a failure of any exchange call made while executing a
\* transition (the balance query, the buy or the sell) leaves the position
\* state unchanged.
C7_FailureKeepsState ==
    (~dry_run /\ pc = "in_ps" /\ Returned
       /\ \E i \in Ops({"balance", "buy", "sell"}) : ~calls[i].ok)
    => ps_ret = ps_state

\* C8: no duplicate execution on success: no order is placed while the state
\* returned for an earlier successful order is still unassigned, and the
\* assignment that follows a successful order gives position_state the
\* table's next state.
C8_SuccessAdvancesOnce ==
    [][/\ (Placed("buy") \/ Placed("sell")) => owed = NoOrder
       /\ (owed # NoOrder /\ owed' = NoOrder) =>
             position_state' = TableNext(owed.state, owed.signal)]_vars

\* a sell succeeded in a cycle after the one whose buy was applied
C8_Witness ==
    /\ pc = "sleep"
    /\ position_state = "NONE"
    /\ cycle >= 2
    /\ \E i \in Ops({"sell"}) : calls[i].ok

\* C9: the signal handed to the state machine is the signal get_signal()
\* computed for the cycle, and the StrategyResult is not modified after
\* get_signal() returned it.
C9_SignalIsEngineSignal ==
    /\ pc \in {"check_valid", "call", "in_ps"} => result.signal = engine_signal
    /\ pc = "in_ps" => ps_signal = engine_signal

\* C19: in a cycle whose StrategyResult has is_data_valid false the state
\* machine is not run: the validity check goes back to the sleep (or to the
\* shutdown on an interrupt) with the position state, the account and the log
\* of helper calls unchanged, and _process_signal never runs on an invalid
\* result.
C19_InvalidResultSkipsExecution ==
    [][/\ (pc = "check_valid" /\ ~result.is_data_valid) =>
             /\ pc' \in {"sleep", "shutdown"}
             /\ position_state' = position_state
             /\ calls' = calls
             /\ acct' = acct
       /\ pc' \in {"call", "in_ps"} => result'.is_data_valid]_vars

\* an invalid cycle was skipped while a position was held
C19_Witness ==
    /\ pc = "sleep"
    /\ ~result.is_data_valid
    /\ cycle >= 2
    /\ position_state = "HOLDING_BTC"

-----------------------------------------------------------------------------
(* Properties of the signal engine, checked under SpecSig *)

Sign(x) == IF x > 0 THEN 1 ELSE IF x < 0 THEN 0 - 1 ELSE 0

\* the sign of z - t for a defined z-score z and an integer t
ZCmp(z, t) ==
    IF Sign(z.a) # Sign(t) THEN Sign(Sign(z.a) - Sign(t))
    ELSE Sign(z.a) * Sign(ZSquare(z) - TSquare(z, t))

EntrySignals == {"SHORT_BTC_LONG_ETH", "LONG_BTC_SHORT_ETH"}

\* get_signal has returned after calling _determine_signal
Determined == sg_pc # "start" /\ ds_called

\* the direct call of _determine_signal has returned
DirectReturned == ds_out # NoState

\* the latest value of a z-score series
Latest(series) == series[Len(series)]

\* current_z is defined and neither above entry_threshold nor below its
\* negative
InBand(current_z) ==
    /\ ~isna(current_z)
    /\ ZCmp(current_z, entry_threshold) <= 0
    /\ ZCmp(current_z, 0 - entry_threshold) >= 0

\* current_z is exactly +entry_threshold or -entry_threshold
AtThreshold(current_z) ==
    /\ ~isna(current_z)
    /\ \/ ZCmp(current_z, entry_threshold) = 0
       \/ ZCmp(current_z, 0 - entry_threshold) = 0

EntryRules(current_z, signal) ==
    /\ isna(current_z) => signal = "HOLD"
    /\ ~isna(current_z) =>
         /\ ZCmp(current_z, entry_threshold) > 0
              => signal = "SHORT_BTC_LONG_ETH"
         /\ ZCmp(current_z, 0 - entry_threshold) < 0
              => signal = "LONG_BTC_SHORT_ETH"
         /\ InBand(current_z) => signal \notin EntrySignals

\* C13: _determine_signal returns HOLD for an undefined current_z, the
\* long-quote signal SHORT_BTC_LONG_ETH for current_z > entry_threshold, the
\* long-base signal LONG_BTC_SHORT_ETH for current_z < -entry_threshold, and
\* no entry signal for a current_z inside the band, the two thresholds
\* themselves included; both in get_signal and called directly.
C13_EntryRules ==
    /\ Determined => EntryRules(Latest(z_score_series.v), sg_result.signal)
    /\ DirectReturned => EntryRules(Latest(ds_history), ds_out)

\* get_signal computed a current_z of exactly entry_threshold from the candles
\* and returned no entry
C13_Witness ==
    /\ Determined
    /\ AtThreshold(Latest(z_score_series.v))
    /\ sg_result.signal \notin EntrySignals

\* the indices of the defined entries of a z-score series before its latest
DefinedBefore(series) == {i \in 1..(Len(series) - 1) : ~isna(series[i])}

\* the most recent defined entry before the latest one
PriorDefined(series) ==
    series[CHOOSE i \in DefinedBefore(series) :
             \A j \in DefinedBefore(series) : j <= i]

\* two defined z-scores strictly on opposite sides of exit_threshold
Straddle(previous_z, current_z) ==
    \/ ZCmp(previous_z, exit_threshold) > 0
         /\ ZCmp(current_z, exit_threshold) < 0
    \/ ZCmp(previous_z, exit_threshold) < 0
         /\ ZCmp(current_z, exit_threshold) > 0

ZeroCrossRule(series, signal) ==
    InBand(Latest(series)) =>
        IF /\ DefinedBefore(series) # {}
           /\ Straddle(PriorDefined(series), Latest(series))
        THEN signal = "CLOSE_POSITIONS"
        ELSE signal = "HOLD"

\* C14: when current_z is defined and inside the entry band, _determine_signal
\* returns CLOSE_POSITIONS exactly when the most recent defined entry before
\* it and current_z lie strictly on opposite sides of exit_threshold, and HOLD
\* otherwise, in particular when one of the two equals exit_threshold or when
\* there is no earlier defined entry; both in get_signal and called directly.
C14_ZeroCrossRule ==
    /\ Determined => ZeroCrossRule(z_score_series.v, sg_result.signal)
    /\ DirectReturned => ZeroCrossRule(ds_history, ds_out)

\* a direct call whose previous entry is undefined: the entry before it is the
\* prior value, and the result is CLOSE_POSITIONS
C14_Witness ==
    /\ DirectReturned
    /\ Len(ds_history) = 3
    /\ isna(ds_history[2])
    /\ InBand(Latest(ds_history))
    /\ ds_out = "CLOSE_POSITIONS"

\* current_z is defined and beyond the entry band on either side
BeyondEntry(current_z) ==
    /\ ~isna(current_z)
    /\ \/ ZCmp(current_z, entry_threshold) > 0
       \/ ZCmp(current_z, 0 - entry_threshold) < 0

\* C15: whenever |current_z| > entry_threshold, _determine_signal does not
\* return CLOSE_POSITIONS, whatever the history, also when current_z and the
\* prior defined value straddle exit_threshold; both in get_signal and called
\* directly.
C15_EntryDominatesZeroCross ==
    /\ Determined /\ BeyondEntry(Latest(z_score_series.v))
         => sg_result.signal # "CLOSE_POSITIONS"
    /\ DirectReturned /\ BeyondEntry(Latest(ds_history))
         => ds_out # "CLOSE_POSITIONS"

\* get_signal computed a current_z beyond the band whose prior defined value
\* is on the other side of exit_threshold, and returned an entry signal
C15_Witness ==
    /\ Determined
    /\ BeyondEntry(Latest(z_score_series.v))
    /\ DefinedBefore(z_score_series.v) # {}
    /\ Straddle(PriorDefined(z_score_series.v), Latest(z_score_series.v))
    /\ sg_result.signal \in EntrySignals

\* get_signal has returned
SignalReturned == sg_pc # "start"

\* one of the two fetches returned nothing: fetch_ohlcv raised or answered with
\* an empty list
FetchFails ==
    \E side \in {"base", "quote"} :
        market[side].raised \/ Len(market[side].candles) = 0

\* the candle periods of a fetched window
CandlePeriods(side) ==
    {market[side].candles[i].timestamp : i \in DOMAIN market[side].candles}

\* both fetches succeeded and the spread computation returned nothing, or no
\* defined ratio because the two windows share no candle period
SpreadFails ==
    /\ ~FetchFails
    /\ \/ \E i \in DOMAIN market.quote.candles :
            market.quote.candles[i].close = 0
       \/ CandlePeriods("base") \cap CandlePeriods("quote") = {}

\* fetches and spread succeeded and the z-score computation returned nothing
\* or no defined value
ZScoreFails ==
    /\ ~FetchFails
    /\ ~SpreadFails
    /\ \/ Cardinality(CandlePeriods("base") \cup CandlePeriods("quote"))
            < rolling_window
       \/ \A i \in DOMAIN z_score_series.v : isna(z_score_series.v[i])

StageFails == FetchFails \/ SpreadFails \/ ZScoreFails

\* C17: when a fetch returns nothing, or the spread computation fails, or the
\* z-score computation fails, get_signal returns a result with signal HOLD,
\* is_data_valid false and a non-empty error_message, and has not called
\* _determine_signal.
C17_StageFailureIsInvalidHold ==
    SignalReturned /\ StageFails =>
        /\ sg_result.signal = "HOLD"
        /\ ~sg_result.is_data_valid
        /\ sg_result.error_message # ""
        /\ ~ds_called

\* the z-score stage failed on fetched candles with non-zero quote closes
C17_Witness ==
    /\ SignalReturned
    /\ ZScoreFails
    /\ Len(market.base.candles) = rolling_window
    /\ ~sg_result.is_data_valid
    /\ ~ds_called

\* get_signal returned a failure result
FailureReturned == SignalReturned /\ ~sg_result.is_data_valid

\* the four statistics of a failure result are the sentinel 0.0
StatisticsZero ==
    /\ sg_result.z_score = 0
    /\ sg_result.spread = 0
    /\ sg_result.spread_mean = 0
    /\ sg_result.spread_std = 0

\* the latest close of a fetched window
LatestClose(side) ==
    market[side].candles[Len(market[side].candles)].close

\* C18 as stated: in every failure result of get_signal, whichever stage
\* failed, z_score, spread, spread_mean, spread_std, the base close and the
\* quote close are all zero.
C18_AllNumericFieldsZero ==
    FailureReturned =>
        /\ StatisticsZero
        /\ sg_result.btc_close = 0
        /\ sg_result.eth_close = 0

\* C18 amended: in every failure result of get_signal the four statistics are
\* zero; the two closes are zero when a fetch returned nothing, and are the
\* latest fetched base and quote closes when the spread or the z-score stage
\* failed.
C18_FailureFields ==
    FailureReturned =>
        /\ StatisticsZero
        /\ FetchFails =>
             sg_result.btc_close = 0 /\ sg_result.eth_close = 0
        /\ ~FetchFails =>
             /\ sg_result.btc_close = LatestClose("base")
             /\ sg_result.eth_close = LatestClose("quote")

\* a failure result of the z-score stage that carries two non-zero closes
C18_Witness ==
    /\ FailureReturned
    /\ ZScoreFails
    /\ sg_result.btc_close # 0
    /\ sg_result.eth_close # 0

\* the direct call of _calculate_spread on the market's closes has returned
SpreadReturned == sg_pc \in {"done", "z_done"}

\* some quote close of the series is zero
ZeroQuote ==
    \E i \in DOMAIN market.quote.candles : market.quote.candles[i].close = 0

\* C20: _calculate_spread returns no series when either input is empty or
\* when a quote close at any index is zero, and a series it does return has
\* no ratio with a zero denominator: it has no infinite entry, and an
\* undefined entry only at a candle period that one of the inputs lacks.
C20_SpreadFailsOnEmptyOrZeroQuote ==
    SpreadReturned =>
        /\ Len(market.base.candles) = 0 \/ Len(market.quote.candles) = 0
             => ~spread_out.ok
        /\ ZeroQuote => ~spread_out.ok
        /\ spread_out.ok =>
             \A k \in DOMAIN spread_out.v :
                 spread_out.v[k].d = 0 =>
                     /\ spread_out.v[k].n = 0
                     /\ Ascending(CandlePeriods("base")
                                    \cup CandlePeriods("quote"))[k]
                          \notin CandlePeriods("base")
                                    \cap CandlePeriods("quote")

\* the only zero quote close is the first of several, and no series was
\* returned
C20_Witness ==
    /\ SpreadReturned
    /\ Len(market.quote.candles) >= 2
    /\ market.quote.candles[1].close = 0
    /\ \A i \in 2..Len(market.quote.candles) :
         market.quote.candles[i].close # 0
    /\ ~spread_out.ok

\* the closes handed to the direct call of _calculate_spread
BaseInput == market.base.candles

QuoteInput == market.quote.candles

\* C21: for non-empty close sequences of equal length with no zero quote
\* close, _calculate_spread returns a series of the length of its inputs whose
\* entry i is the ratio base[i] / quote[i].
C21_SpreadIsElementwiseRatio ==
    /\ SpreadReturned
    /\ Len(BaseInput) > 0
    /\ Len(BaseInput) = Len(QuoteInput)
    /\ ~ZeroQuote
    => /\ spread_out.ok
       /\ Len(spread_out.v) = Len(BaseInput)
       /\ \A i \in DOMAIN BaseInput :
            /\ spread_out.v[i].d # 0
            /\ spread_out.v[i].n * QuoteInput[i].close
                 = BaseInput[i].close * spread_out.v[i].d

\* the direct call of _calculate_z_score has returned
ZScoreReturned == sg_pc = "z_done"

\* C22: _calculate_z_score returns no series for an empty spread and for a
\* spread shorter than rolling_window; for any other spread it returns a
\* series of the spread's length whose first rolling_window - 1 entries are
\* undefined.
C22_ZScoreLengthAndWarmup ==
    ZScoreReturned =>
        /\ Len(SpreadInput) = 0 => ~z_out.ok
        /\ Len(SpreadInput) < rolling_window => ~z_out.ok
        /\ Len(SpreadInput) >= rolling_window =>
             /\ z_out.ok
             /\ Len(z_out.v) = Len(SpreadInput)
             /\ \A i \in 1..(rolling_window - 1) : isna(z_out.v[i])

\* a spread of exactly rolling_window entries: a series comes back, undefined
\* up to its last entry, which is defined
C22_Witness ==
    /\ ZScoreReturned
    /\ Len(SpreadInput) = rolling_window
    /\ z_out.ok
    /\ \A i \in 1..(rolling_window - 1) : isna(z_out.v[i])
    /\ ~isna(z_out.v[rolling_window])

\* the trailing window that ends at index i
Trailing(i) == (i - rolling_window + 1)..i

\* every entry of the trailing window at i is a defined ratio and all are
\* equal, which is when the rolling standard deviation is exactly zero
FlatWindow(spread, i) ==
    /\ \A j \in Trailing(i) : spread[j].d # 0
    /\ \A j, k \in Trailing(i) :
         spread[j].n * spread[k].d = spread[k].n * spread[j].d

\* C23: at every index whose trailing window has a rolling standard
\* deviation of exactly zero the z-score is undefined, no entry of the series
\* is infinite, and _calculate_z_score still returns the series.
C23_ZeroStdIsUndefined ==
    ZScoreReturned /\ Len(SpreadInput) >= rolling_window =>
        /\ z_out.ok
        /\ \A i \in rolling_window..Len(SpreadInput) :
             FlatWindow(SpreadInput, i) => isna(z_out.v[i])
        /\ \A i \in DOMAIN z_out.v :
             ~isna(z_out.v[i]) => z_out.v[i].b > 0

\* a series came back with an undefined entry at a flat window and a defined
\* entry elsewhere
C23_Witness ==
    /\ ZScoreReturned
    /\ z_out.ok
    /\ \E i \in rolling_window..Len(SpreadInput) :
         FlatWindow(SpreadInput, i) /\ isna(z_out.v[i])
    /\ \E i \in DOMAIN z_out.v : ~isna(z_out.v[i])

\* get_signal returned a StrategyResult with is_data_valid true
ValidReturned == sg_pc = "returned" /\ sg_result.is_data_valid

\* C33: the z-score of a valid StrategyResult is defined, and is the latest
\* defined entry of the z-score series.
C33_ValidResultHasLatestDefinedZ ==
    ValidReturned =>
        /\ ~isna(sg_result.z_score)
        /\ sg_result.z_score = Latest(dropna(z_score_series.v))

-----------------------------------------------------------------------------
(* Properties of the loop's two except clauses, checked under Spec *)

\* the process has ended
Terminated == pc \in {"exited", "crashed"}

\* C26: an interrupt that arrives at any point after the loop has started, the
\* exception-recovery path included, ends the process through the shutdown
\* path: whenever the process has ended, the shutdown handler has logged and
\* notified the final position state.
C26_InterruptShutsDownCleanly ==
    Terminated => pc = "exited" /\ final_state = position_state

\* C27: an error raised inside a cycle leaves the try block only into the
\* except Exception handler; the handler sends its alert, sleeps and goes back
\* to the top of the loop, where the next cycle begins; position_state keeps
\* its value all along, and the process does not end.
C27_ErrorsAreContained ==
    [][/\ pc \in TryPoints /\ pc' \notin TryPoints \cup {"shutdown"}
            => pc' = "exc_notify" /\ position_state' = position_state
       /\ pc = "exc_notify" /\ pc' # "crashed"
            => pc' = "exc_sleep" /\ position_state' = position_state
       /\ pc = "exc_sleep" /\ pc' # "crashed"
            => pc' = "sleep" /\ position_state' = position_state]_vars

\* the handler has sent its alert after an error in a cycle that began with a
\* position held
C27_Witness ==
    /\ pc = "exc_sleep"
    /\ position_state = "HOLDING_BTC"
    /\ cycle >= 2

-----------------------------------------------------------------------------
(* Properties of the notifier, checked under SpecNotify *)

\* send_telegram_message is over
SendOver == tg_pc \in {"returned", "raised"}

\* the bot token or the chat id is missing or empty
CredentialMissing ==
    \/ tg_call.token = "<None>" \/ tg_call.token = ""
    \/ tg_call.chat_id = "<None>" \/ tg_call.chat_id = ""

\* sent is the first TelegramLimit characters of text, or all of it
IsLimitedPrefix(sent, text) ==
    /\ Len(sent) = IF Len(text) < TelegramLimit THEN Len(text)
                   ELSE TelegramLimit
    /\ \A i \in 1..Len(sent) : sent[i] = text[i]

\* C29: send_telegram_message makes no request when the bot token or the chat
\* id is missing or empty; otherwise it makes exactly one request, whose text
\* is the first 4096 characters of its input, the whole input when that is
\* shorter.
C29_OneTruncatedRequestIfConfigured ==
    /\ CredentialMissing => tg_posts = <<>>
    /\ SendOver /\ ~CredentialMissing =>
         /\ Len(tg_posts) = 1
         /\ IsLimitedPrefix(tg_posts[1].text, tg_call.text)

\* a message longer than the limit went out cut to the limit
C29_Witness ==
    /\ SendOver
    /\ Len(tg_call.text) > TelegramLimit
    /\ Len(tg_posts) = 1
    /\ Len(tg_posts[1].text) = TelegramLimit

-----------------------------------------------------------------------------
(* Properties of the start of main() and of position_state, checked under Spec *)

\* the while loop is about to run its first iteration
LoopStarts == pc = "sleep" /\ cycle = 0

\* the step assigns the value _process_signal returned to position_state
AssignsReturnValue ==
    pc = "in_ps" /\ ps_pc = "ret" /\ position_state' = ps_ret

\* the step is the initial assignment before the loop
AssignsInitialState == pc = "init" /\ position_state' = "NONE"

\* C31: position_state is NONE when the loop starts, and a step that changes
\* it is either the initial assignment before the loop or the assignment of
\* the value _process_signal returned.
C31_StateStartsFlatAndOnlyAssigned ==
    /\ [](LoopStarts => position_state = "NONE")
    /\ [][position_state' # position_state =>
             AssignsInitialState \/ AssignsReturnValue]_vars

\* a returned holding state has been assigned and the loop is back at its top
C31_Witness ==
    /\ pc = "sleep"
    /\ cycle >= 1
    /\ position_state = "HOLDING_BTC"

\* nothing of the loop has happened: no cycle, no result of get_signal, no
\* helper call, no order, no position state
NothingRan ==
    /\ cycle = 0
    /\ result = NoResult
    /\ calls = <<>>
    /\ open = {}
    /\ filled = NoFill
    /\ owed = NoOrder
    /\ position_state = NoState

\* C32: once BinanceClient(...) has raised, main() only logs and exits: from
\* then on no cycle runs, get_signal is never called and no order is placed.
C32_ClientFailureAbortsBeforeLoop ==
    /\ [](pc \in {"client_failed", "aborted"} => NothingRan)
    /\ [][/\ pc = "client_failed" => pc' = "aborted"
          /\ pc # "aborted"]_vars

\* the process has exited after the client could not be constructed
C32_Witness == pc = "aborted" /\ NothingRan

-----------------------------------------------------------------------------
(* SpecLive: the loop running on without end, for the progress properties *)

\* time.sleep(POLL_INTERVAL_SECONDS) once cycle is past the cycles counted:
\* the loop goes on and the counter is no longer followed
SleepOn ==
    /\ pc = "sleep"
    /\ cycle = MaxCycles
    /\ pc' = "get_signal"
    /\ UNCHANGED <<environ, dry_run, filled,
                   acct, open, position_state, cycle, result,
                   engine_signal, owed, final_state>>
    /\ UNCHANGED ps_frame
    /\ UNCHANGED strat_vars
    /\ UNCHANGED notifier_vars

NextLive == Next \/ SleepOn

\* the statements of main() and of _process_signal, which the interpreter
\* runs one after the other; the interrupts and the exception of get_signal
\* are not among them
Statement ==
    \/ CreateClient
    \/ ClientFailedExit
    \/ EnterLoop
    \/ Sleep
    \/ SleepOn
    \/ GetSignal
    \/ Hack
    \/ CheckValid
    \/ CallProcessSignal
    \/ InCall(Dispatch)
    \/ InCall(ExecuteBuy)
    \/ InCall(GetCoinBalance)
    \/ InCall(SellGuard)
    \/ InCall(ExecuteSell)
    \/ InCall(Notify)
    \/ AssignState
    \/ Shutdown
    \/ ExcNotify
    \/ ExcSleep

\* get_signal() returns a result with is_data_valid true
DeliversValid == GetSignal /\ result'.is_data_valid

\* _execute_sell returns True
SellSucceeds == InCall(ExecuteSell) /\ calls'[Len(calls')].ok

\* the program keeps running; valid results keep being delivered; sell orders
\* do not fail forever
Fairness ==
    /\ WF_vars(Statement)
    /\ SF_vars(DeliversValid)
    /\ SF_vars(SellSucceeds)

SpecLive == Init /\ [][NextLive]_vars /\ Fairness

\* a position is held by the loop
Holding == position_state \in {"HOLDING_BTC", "HOLDING_ETH"}

\* C34: while the process runs, valid results keep coming and sell orders do
\* not fail forever, a held position state leads to NONE: an exit signal
\* reaches the holding branch, which either sells or, on a balance that is
\* not positive, resets the state.
C34_HoldingLeadsToFlat ==
    Holding ~> (position_state = "NONE" \/ Terminated)

\* the loop is back at its top with NONE assigned after an exit from
\* HOLDING_BTC
C34_Witness ==
    /\ pc = "sleep"
    /\ position_state = "NONE"
    /\ ps_state = "HOLDING_BTC"
    /\ ps_ret = "NONE"

-----------------------------------------------------------------------------
(* SpecFair: the loop running on with an exchange and an engine that keep
   offering every outcome, for the reachability of the position states *)

\* get_signal() returns a valid result with signal s while the loop is in
\* state
Delivers(state, s) ==
    /\ GetSignal
    /\ position_state = state
    /\ result' = [signal |-> s, is_data_valid |-> TRUE]

\* _execute_buy(symbol) returns True
BuySucceeds(symbol) ==
    /\ InCall(ExecuteBuy)
    /\ calls'[Len(calls')].arg = symbol
    /\ calls'[Len(calls')].ok

\* the positions the engine's signals are needed in: an entry signal while
\* flat, an exit signal while holding
Offers ==
    {<<"NONE", "LONG_BTC_SHORT_ETH">>, <<"NONE", "SHORT_BTC_LONG_ETH">>,
     <<"HOLDING_BTC", "CLOSE_POSITIONS">>, <<"HOLDING_ETH", "CLOSE_POSITIONS">>}

\* the program keeps running, the engine keeps delivering entry signals while
\* the loop is flat and exit signals while it holds, and the orders for a
\* symbol do not fail forever
Suitable ==
    /\ WF_vars(Statement)
    /\ \A o \in Offers : SF_vars(Delivers(o[1], o[2]))
    /\ \A symbol \in {SYMBOL_BASE, SYMBOL_QUOTE} : SF_vars(BuySucceeds(symbol))
    /\ SF_vars(SellSucceeds)

SpecFair == Init /\ [][NextLive]_vars /\ Suitable

\* the process has ended, at startup or later
Stopped == Terminated \/ pc = "aborted"

\* the test block never lets the loop hold the quote coin
QuoteNeverHeld == position_state # "HOLDING_ETH"

\* C35: each of NONE, HOLDING_BTC and HOLDING_ETH is reached by the loop when
\* the sequence of signals and order outcomes is suitable: an engine that
\* keeps delivering every signal and orders that do not fail forever bring a
\* process that is not stopped into each of the three states.
C35_EveryStateReached ==
    \A state \in PositionState : <>(position_state = state \/ Stopped)

-----------------------------------------------------------------------------
(* Properties of the loop's position state against the orders of the run,
   checked under Spec *)

\* the loop is outside the call of _process_signal, where position_state is
\* what the loop acts on, logs and notifies
OutsideCall == pc # "in_ps"

\* C36: outside the call of _process_signal, whenever position_state is
\* HOLDING_BTC (HOLDING_ETH) the most recent order that succeeded in the run
\* is a buy of the base (quote) symbol.
C36_HoldingMatchesLastFill ==
    OutsideCall /\ Holding =>
        /\ filled.op = "buy"
        /\ filled.symbol = held_symbol(position_state)

\* the holding state of a symbol
HoldingOf(symbol) ==
    IF symbol = SYMBOL_BASE THEN "HOLDING_BTC" ELSE "HOLDING_ETH"

\* the most recent order that succeeded is a buy, and no sell guard has fired
\* since
BoughtAndKept == filled.op = "buy" /\ ~filled.reset

\* C37: when the process has exited through the shutdown handler after a buy
\* that no successful sell and no sell-guard reset followed, the final state
\* the handler logged and notified is the holding state of the symbol bought.
C37_ShutdownReportsHeldPosition ==
    pc = "exited" /\ BoughtAndKept => final_state = HoldingOf(filled.symbol)

====
